---- MODULE Spec2Model ----
(***************************************************************************)
(* Model of the Custom Metrics <-> Stackdriver translator                  *)
(* (custom-metrics-stackdriver-adapter/pkg/adapter/provider/translator.go).*)
(*                                                                         *)
(* A Go string is modelled as a sequence of chunks.  A chunk is either one *)
(* character of caller-supplied text (names, UIDs, namespaces, metric and  *)
(* descriptor type names) or one piece of the fixed text of a format       *)
(* string.  Concatenation of Go strings is \o.                             *)
(*                                                                         *)
(* The translator is stateless: every public method is a function of the   *)
(* translator's configuration and of its arguments.  A behaviour of the    *)
(* model is one call: Init draws the configuration and the arguments, the  *)
(* action of the called method computes its result.                        *)
(***************************************************************************)
EXTENDS Integers, Sequences, FiniteSets, TLC

VARIABLES t, call, result, pc

vars == <<t, call, result, pc>>

(***************************************************************************)
(* Bounds of the model and program constants.                              *)
(***************************************************************************)
\* longest object list whose elements are drawn freely
MaxItems == 3

\* longest response
MaxSeries == 3

\* longest descriptor listing
MaxDescriptors == 2

\* translator.go:40
oneOfMax == 100

nodeResource == "nodes"

podResource == "pods"

(***************************************************************************)
(* Strings.                                                                *)
(***************************************************************************)
RECURSIVE Join(_, _)
\* strings.Join(elems, sep), computed by halving the list
Join(elems, sep) ==
    IF Len(elems) = 0 THEN <<>>
    ELSE IF Len(elems) = 1 THEN elems[1]
    ELSE Join(SubSeq(elems, 1, Len(elems) \div 2), sep) \o sep
         \o Join(SubSeq(elems, (Len(elems) \div 2) + 1, Len(elems)), sep)

RECURSIVE Escape(_)
\* the body of a Go %q literal: '"' and '\' get a backslash in front
Escape(s) ==
    IF Len(s) = 0 THEN <<>>
    ELSE IF Head(s) = "\"" \/ Head(s) = "\\"
         THEN <<"\\", Head(s)>> \o Escape(Tail(s))
         ELSE <<Head(s)>> \o Escape(Tail(s))

\* fmt.Sprintf("%q", s)
Quote(s) == <<"\"">> \o Escape(s) \o <<"\"">>

\* strings.HasPrefix(s, prefix)
HasPrefix(s, prefix) ==
    Len(s) >= Len(prefix) /\ SubSeq(s, 1, Len(prefix)) = prefix

\* strings.TrimPrefix(s, prefix)
TrimPrefix(s, prefix) ==
    IF HasPrefix(s, prefix) THEN SubSeq(s, Len(prefix) + 1, Len(s)) ELSE s

\* strings.Contains(s, "/")
ContainsSlash(s) == \E i \in 1..Len(s) : s[i] = "/"

(***************************************************************************)
(* The configuration of a translator (type Translator).                    *)
(***************************************************************************)
GceConfig ==
    [MetricsPrefix |-> <<"p">>, Project |-> <<"j">>,
     Cluster |-> <<"c">>, Location |-> <<"z">>]

\* a metrics prefix that has a separator of its own
NestedPrefixConfig == [GceConfig EXCEPT !.MetricsPrefix = <<"p", "/", "q">>]

TranslatorsOf(configs) ==
    [useNewResourceModel : BOOLEAN, config : configs,
     reqWindow : {60}, now : {1000}]

Translators == TranslatorsOf({GceConfig})

(***************************************************************************)
(* Filter builders.  A builder returns [fatal, s]: glog.Fatalf ends the    *)
(* process, and then there is no string.                                   *)
(***************************************************************************)
FilterOk(s) == [fatal |-> FALSE, s |-> s]

FilterFatal == [fatal |-> TRUE, s |-> <<>>]

\* getPodNames formatting the names with %s instead of %q
getPodNamesUnquoted(list) == [i \in 1..Len(list) |-> list[i].name]

getPodNames(list) == [i \in 1..Len(list) |-> Quote(list[i].name)]

getNodeNames(list) == [i \in 1..Len(list) |-> Quote(list[i].name)]

getResourceIDs(list) == [i \in 1..Len(list) |-> Quote(list[i].uid)]

joinFilters(filters) == Join(filters, <<" AND ">>)

filterForCluster(tr) ==
    <<"resource.label.project_id = ">> \o Quote(tr.config.Project)
    \o <<" AND ">>
    \o <<"resource.label.cluster_name = ">> \o Quote(tr.config.Cluster)
    \o <<" AND ">>
    \o <<"resource.label.location = ">> \o Quote(tr.config.Location)

filterForMetricPrefix(tr) ==
    <<"metric.type = ", "starts_with(", "\"">> \o tr.config.MetricsPrefix
    \o <<"/", "\"", ")">>

filterForMetric(metricName) == <<"metric.type = ">> \o Quote(metricName)

filterForAnyPod == <<"resource.type = ", "\"", "k8s_pod", "\"">>

filterForAnyNode == <<"resource.type = ", "\"", "k8s_node", "\"">>

filterForAnyResource ==
    <<"resource.type = ", "one_of(", "\"", "k8s_pod", "\"", ",",
      "\"", "k8s_node", "\"", ")">>

filterForPods(podNames, namespace) ==
    IF Len(podNames) = 0 THEN FilterFatal
    ELSE IF Len(podNames) = 1
    THEN FilterOk(<<"resource.label.namespace_name = ">> \o Quote(namespace)
                  \o <<" AND ">> \o <<"resource.label.pod_name = ">>
                  \o podNames[1])
    ELSE FilterOk(<<"resource.label.namespace_name = ">> \o Quote(namespace)
                  \o <<" AND ">> \o <<"resource.label.pod_name = ">>
                  \o <<"one_of(">> \o Join(podNames, <<",">>) \o <<")">>)

filterForNodes(nodeNames) ==
    IF Len(nodeNames) = 0 THEN FilterFatal
    ELSE IF Len(nodeNames) = 1
    THEN FilterOk(<<"resource.label.node_name = ">> \o nodeNames[1])
    ELSE FilterOk(<<"resource.label.node_name = ">>
                  \o <<"one_of(">> \o Join(nodeNames, <<",">>) \o <<")">>)

legacyFilterForCluster(tr) ==
    <<"resource.label.project_id = ">> \o Quote(tr.config.Project)
    \o <<" AND ">>
    \o <<"resource.label.cluster_name = ">> \o Quote(tr.config.Cluster)
    \o <<" AND ">>
    \o <<"resource.label.container_name = ", "\"", "\"">>

legacyFilterForAnyPod ==
    <<"resource.label.pod_id != ", "\"", "\"", " AND ",
      "resource.label.pod_id != ", "\"", "machine", "\"">>

legacyFilterForPods(podIDs) ==
    IF Len(podIDs) = 0 THEN FilterFatal
    ELSE IF Len(podIDs) = 1
    THEN FilterOk(<<"resource.label.pod_id = ">> \o podIDs[1])
    ELSE FilterOk(<<"resource.label.pod_id = ">>
                  \o <<"one_of(">> \o Join(podIDs, <<",">>) \o <<")">>)

\* the time series query: project, filter, interval, aligner, period
createListTimeseriesRequest(tr, filter) ==
    [project |-> <<"projects/">> \o tr.config.Project,
     filter |-> filter,
     intervalStartTime |-> tr.now - tr.reqWindow,
     intervalEndTime |-> tr.now,
     perSeriesAligner |-> "ALIGN_NEXT_OLDER",
     alignmentPeriod |-> tr.reqWindow]

NoRequest == [project |-> <<>>, filter |-> <<>>, intervalStartTime |-> 0,
              intervalEndTime |-> 0, perSeriesAligner |-> "",
              alignmentPeriod |-> 0]

(***************************************************************************)
(* Request builders.  The result is [kind, called, req]: kind is "ok", the *)
(* kind of the returned error, or "Fatal" when the process was ended;      *)
(* called lists the filter builders invoked, in order.                     *)
(***************************************************************************)
ReqError(kind) == [kind |-> kind, called |-> <<>>, req |-> NoRequest]

Built(name, f) == [name |-> name, f |-> f]

\* the arguments of joinFilters are evaluated left to right; the first
\* builder that ends the process is the last one invoked
FirstFatal(items) ==
    IF \E i \in 1..Len(items) : items[i].f.fatal
    THEN CHOOSE i \in 1..Len(items) :
            /\ items[i].f.fatal
            /\ \A j \in 1..(i - 1) : ~items[j].f.fatal
    ELSE 0

ReqBuilt(tr, items) ==
    IF FirstFatal(items) > 0
    THEN [kind |-> "Fatal",
          called |-> [i \in 1..FirstFatal(items) |-> items[i].name],
          req |-> NoRequest]
    ELSE [kind |-> "ok",
          called |-> [i \in 1..Len(items) |-> items[i].name],
          req |-> createListTimeseriesRequest(tr,
                    joinFilters([i \in 1..Len(items) |-> items[i].f.s]))]

\* GetSDReqForPods without its check for an empty list
GetSDReqForPodsNoEmptyCheck(tr, podList, metricName, namespace) ==
    IF Len(podList) > oneOfMax THEN ReqError("InternalError")
    ELSE IF tr.useNewResourceModel
    THEN ReqBuilt(tr,
            <<Built("filterForMetric",
                    FilterOk(filterForMetric(tr.config.MetricsPrefix
                                             \o <<"/">> \o metricName))),
              Built("filterForCluster", FilterOk(filterForCluster(tr))),
              Built("filterForPods",
                    filterForPods(getPodNames(podList), namespace)),
              Built("filterForAnyPod", FilterOk(filterForAnyPod))>>)
    ELSE ReqBuilt(tr,
            <<Built("filterForMetric",
                    FilterOk(filterForMetric(tr.config.MetricsPrefix
                                             \o <<"/">> \o metricName))),
              Built("legacyFilterForCluster",
                    FilterOk(legacyFilterForCluster(tr))),
              Built("legacyFilterForPods",
                    legacyFilterForPods(getResourceIDs(podList)))>>)

GetSDReqForPods(tr, podList, metricName, namespace) ==
    IF Len(podList) = 0 THEN ReqError("BadRequest")
    ELSE IF Len(podList) > oneOfMax THEN ReqError("InternalError")
    ELSE IF tr.useNewResourceModel
    THEN ReqBuilt(tr,
            <<Built("filterForMetric",
                    FilterOk(filterForMetric(tr.config.MetricsPrefix
                                             \o <<"/">> \o metricName))),
              Built("filterForCluster", FilterOk(filterForCluster(tr))),
              Built("filterForPods",
                    filterForPods(getPodNames(podList), namespace)),
              Built("filterForAnyPod", FilterOk(filterForAnyPod))>>)
    ELSE ReqBuilt(tr,
            <<Built("filterForMetric",
                    FilterOk(filterForMetric(tr.config.MetricsPrefix
                                             \o <<"/">> \o metricName))),
              Built("legacyFilterForCluster",
                    FilterOk(legacyFilterForCluster(tr))),
              Built("legacyFilterForPods",
                    legacyFilterForPods(getResourceIDs(podList)))>>)

\* GetSDReqForNodes testing the resource model before the list's length
GetSDReqForNodesModelFirst(tr, nodeList, metricName) ==
    IF ~tr.useNewResourceModel THEN ReqError("OperationNotSupported")
    ELSE IF Len(nodeList) = 0 THEN ReqError("BadRequest")
    ELSE IF Len(nodeList) > oneOfMax THEN ReqError("InternalError")
    ELSE ReqBuilt(tr,
            <<Built("filterForMetric",
                    FilterOk(filterForMetric(tr.config.MetricsPrefix
                                             \o <<"/">> \o metricName))),
              Built("filterForCluster", FilterOk(filterForCluster(tr))),
              Built("filterForNodes", filterForNodes(getNodeNames(nodeList))),
              Built("filterForAnyNode", FilterOk(filterForAnyNode))>>)

GetSDReqForNodes(tr, nodeList, metricName) ==
    IF Len(nodeList) = 0 THEN ReqError("BadRequest")
    ELSE IF Len(nodeList) > oneOfMax THEN ReqError("InternalError")
    ELSE IF ~tr.useNewResourceModel THEN ReqError("OperationNotSupported")
    ELSE ReqBuilt(tr,
            <<Built("filterForMetric",
                    FilterOk(filterForMetric(tr.config.MetricsPrefix
                                             \o <<"/">> \o metricName))),
              Built("filterForCluster", FilterOk(filterForCluster(tr))),
              Built("filterForNodes", filterForNodes(getNodeNames(nodeList))),
              Built("filterForAnyNode", FilterOk(filterForAnyNode))>>)

ListMetricDescriptors(tr) ==
    [project |-> <<"projects/">> \o tr.config.Project,
     filter |-> IF tr.useNewResourceModel
                THEN joinFilters(<<filterForMetricPrefix(tr),
                                   filterForCluster(tr),
                                   filterForAnyResource>>)
                ELSE joinFilters(<<filterForMetricPrefix(tr),
                                   legacyFilterForCluster(tr),
                                   legacyFilterForAnyPod>>)]

(***************************************************************************)
(* Responses.  A time series is [resourceType, labels, points]; labels is  *)
(* a Go map (a function on the labels present), a point's value is a       *)
(* TypedValue: [kind, v] with kind "int64", "double" or "none" (neither    *)
(* field set).  A double is held as its count of ten-thousandths, so that  *)
(* v * 1000 is v / 10 in thousandths; binary rounding of the product is    *)
(* not modelled.  A resource.Quantity is held as its count of thousandths: *)
(* Quantity arithmetic is exact (it leaves int64 for big decimals when it  *)
(* has to).  Every point is taken to carry a Value: the dereference of     *)
(* series.Points[0].Value always succeeds.                                 *)
(***************************************************************************)
\* labels[key]: a Go map yields "" for an absent key
Label(labels, key) == IF key \in DOMAIN labels THEN labels[key] ELSE <<>>

\* int64(x): the integer part of a / b, truncated towards zero
TruncDiv(a, b) == IF a >= 0 THEN a \div b ELSE -((-a) \div b)

\* resource.NewQuantity(v, resource.DecimalSI)
NewQuantity(v) == v * 1000

\* resource.NewMilliQuantity(m, resource.DecimalSI)
NewMilliQuantity(m) == m

\* Quantity.Add replacing the receiver instead of adding to it
QuantityAddOverwriting(q, r) == r

\* Quantity.Add
QuantityAdd(q, r) == q + r

EmptyMap == [k \in {} |-> 0]

\* m[k] = v on a Go map
MapPut(m, k, v) == [x \in DOMAIN m \cup {k} |-> IF x = k THEN v ELSE m[x]]

\* metricKey with no failure for a resource type it does not know
metricKeyAnyType(tr, timeSeries) ==
    IF tr.useNewResourceModel
    THEN IF timeSeries.resourceType = "k8s_pod"
         THEN [err |-> FALSE,
               name |-> Label(timeSeries.labels, "namespace_name") \o <<":">>
                        \o Label(timeSeries.labels, "pod_name")]
         ELSE [err |-> FALSE,
               name |-> <<":">> \o Label(timeSeries.labels, "node_name")]
    ELSE [err |-> FALSE, name |-> Label(timeSeries.labels, "pod_id")]

metricKey(tr, timeSeries) ==
    IF tr.useNewResourceModel
    THEN IF timeSeries.resourceType = "k8s_pod"
         THEN [err |-> FALSE,
               name |-> Label(timeSeries.labels, "namespace_name") \o <<":">>
                        \o Label(timeSeries.labels, "pod_name")]
         ELSE IF timeSeries.resourceType = "k8s_node"
         THEN [err |-> FALSE,
               name |-> <<":">> \o Label(timeSeries.labels, "node_name")]
         ELSE [err |-> TRUE, name |-> <<>>]
    ELSE [err |-> FALSE, name |-> Label(timeSeries.labels, "pod_id")]

resourceKey(tr, object) ==
    IF tr.useNewResourceModel
    THEN object.namespace \o <<":">> \o object.name
    ELSE object.uid

AggError(kind) == [kind |-> kind, values |-> EmptyMap]

\* what a point adds to the quantity of its key
Contribution(value) ==
    IF value.kind = "int64" THEN NewQuantity(value.v)
    ELSE NewMilliQuantity(TruncDiv(value.v, 10))

RECURSIVE AggregateFromSkipping(_, _, _, _)
\* the loop of getMetricValuesFromResponse passing over a series that has
\* not exactly one point
AggregateFromSkipping(tr, timeSeries, i, metricValues) ==
    IF i > Len(timeSeries) THEN [kind |-> "ok", values |-> metricValues]
    ELSE IF Len(timeSeries[i].points) /= 1
    THEN AggregateFromSkipping(tr, timeSeries, i + 1, metricValues)
    ELSE IF metricKey(tr, timeSeries[i]).err THEN AggError("InternalError")
    ELSE IF timeSeries[i].points[1].kind \notin {"int64", "double"}
    THEN AggError("BadRequest")
    ELSE LET name == metricKey(tr, timeSeries[i]).name
             currentQuantity ==
                 IF name \in DOMAIN metricValues THEN metricValues[name]
                 ELSE NewQuantity(0)
         IN  AggregateFromSkipping(tr, timeSeries, i + 1,
                 MapPut(metricValues, name,
                        QuantityAdd(currentQuantity,
                                    Contribution(timeSeries[i].points[1]))))

RECURSIVE AggregateFrom(_, _, _, _)
\* the loop of getMetricValuesFromResponse from series i on
AggregateFrom(tr, timeSeries, i, metricValues) ==
    IF i > Len(timeSeries) THEN [kind |-> "ok", values |-> metricValues]
    ELSE IF Len(timeSeries[i].points) /= 1 THEN AggError("InternalError")
    ELSE IF metricKey(tr, timeSeries[i]).err THEN AggError("InternalError")
    ELSE IF timeSeries[i].points[1].kind \notin {"int64", "double"}
    THEN AggError("BadRequest")
    ELSE LET name == metricKey(tr, timeSeries[i]).name
             currentQuantity ==
                 IF name \in DOMAIN metricValues THEN metricValues[name]
                 ELSE NewQuantity(0)
         IN  AggregateFrom(tr, timeSeries, i + 1,
                 MapPut(metricValues, name,
                        QuantityAdd(currentQuantity,
                                    Contribution(timeSeries[i].points[1]))))

getMetricValuesFromResponse(tr, groupResource, response, metricName) ==
    IF Len(response) < 1 THEN AggError("MetricNotFound")
    ELSE AggregateFrom(tr, response, 1, EmptyMap)

\* mapper.KindFor: the kinds the REST mapper knows
KindFor(groupResource) ==
    IF groupResource.resource = podResource
    THEN [err |-> FALSE, kind |-> "Pod"]
    ELSE IF groupResource.resource = nodeResource
    THEN [err |-> FALSE, kind |-> "Node"]
    ELSE [err |-> TRUE, kind |-> ""]

NoMetricValue ==
    [describedObject |-> [apiVersion |-> <<>>, kind |-> "", name |-> <<>>,
                          namespace |-> <<>>],
     metricName |-> <<>>, timestamp |-> 0, value |-> 0]

metricFor(tr, value, groupResource, namespace, name, metricName) ==
    IF KindFor(groupResource).err
    THEN [err |-> TRUE, metricValue |-> NoMetricValue]
    ELSE [err |-> FALSE,
          metricValue |->
            [describedObject |->
                [apiVersion |-> groupResource.group \o <<"/", "__internal">>,
                 kind |-> KindFor(groupResource).kind,
                 name |-> name,
                 namespace |-> namespace],
             metricName |-> metricName,
             timestamp |-> tr.now,
             value |-> value]]

RECURSIVE metricsForFromZeroFilling(_, _, _, _, _, _, _)
\* the loop of metricsFor giving an object without a key the quantity 0
metricsForFromZeroFilling(tr, values, groupResource, metricName, list, i, res) ==
    IF i > Len(list) THEN [kind |-> "ok", values |-> res]
    ELSE IF metricFor(tr, 0, groupResource, list[i].namespace, list[i].name,
                      metricName).err
    THEN [kind |-> "MapperError", values |-> <<>>]
    ELSE metricsForFromZeroFilling(tr, values, groupResource, metricName,
            list, i + 1,
            Append(res,
                   metricFor(tr,
                             IF resourceKey(tr, list[i]) \in DOMAIN values
                             THEN values[resourceKey(tr, list[i])] ELSE 0,
                             groupResource, list[i].namespace, list[i].name,
                             metricName).metricValue))

RECURSIVE metricsForFrom(_, _, _, _, _, _, _)
\* the loop of metricsFor from item i on
metricsForFrom(tr, values, groupResource, metricName, list, i, res) ==
    IF i > Len(list) THEN [kind |-> "ok", values |-> res]
    ELSE IF resourceKey(tr, list[i]) \notin DOMAIN values
    THEN metricsForFrom(tr, values, groupResource, metricName, list, i + 1, res)
    ELSE IF metricFor(tr, values[resourceKey(tr, list[i])], groupResource,
                      list[i].namespace, list[i].name, metricName).err
    THEN [kind |-> "MapperError", values |-> <<>>]
    ELSE metricsForFrom(tr, values, groupResource, metricName, list, i + 1,
            Append(res,
                   metricFor(tr, values[resourceKey(tr, list[i])],
                             groupResource, list[i].namespace, list[i].name,
                             metricName).metricValue))

metricsFor(tr, values, groupResource, metricName, list) ==
    metricsForFrom(tr, values, groupResource, metricName, list, 1, <<>>)

\* GetRespForSingleObject accepting a map of several keys
GetRespForSingleObjectAnyCount(tr, response, groupResource, metricName, namespace, name) ==
    LET got == getMetricValuesFromResponse(tr, groupResource, response,
                                           metricName)
    IN  IF got.kind /= "ok"
        THEN [kind |-> got.kind, value |-> NoMetricValue]
        ELSE IF Cardinality(DOMAIN got.values) < 1
        THEN [kind |-> "InternalError", value |-> NoMetricValue]
        ELSE LET value == got.values[CHOOSE k \in DOMAIN got.values : TRUE]
                 made == metricFor(tr, value, groupResource, namespace, name,
                                   metricName)
             IN  IF made.err
                 THEN [kind |-> "MapperError", value |-> NoMetricValue]
                 ELSE [kind |-> "ok", value |-> made.metricValue]

\* The result of GetRespForSingleObject is [kind, value], that of
\* GetRespForMultipleObjects [kind, values]; kind is "ok" or the error's.
GetRespForSingleObject(tr, response, groupResource, metricName, namespace, name) ==
    LET got == getMetricValuesFromResponse(tr, groupResource, response,
                                           metricName)
    IN  IF got.kind /= "ok"
        THEN [kind |-> got.kind, value |-> NoMetricValue]
        ELSE IF Cardinality(DOMAIN got.values) /= 1
        THEN [kind |-> "InternalError", value |-> NoMetricValue]
        ELSE LET value == got.values[CHOOSE k \in DOMAIN got.values : TRUE]
                 made == metricFor(tr, value, groupResource, namespace, name,
                                   metricName)
             IN  IF made.err
                 THEN [kind |-> "MapperError", value |-> NoMetricValue]
                 ELSE [kind |-> "ok", value |-> made.metricValue]

GetRespForMultipleObjects(tr, response, list, groupResource, metricName) ==
    LET got == getMetricValuesFromResponse(tr, groupResource, response,
                                           metricName)
    IN  IF got.kind /= "ok"
        THEN [kind |-> got.kind, values |-> <<>>]
        ELSE metricsFor(tr, got.values, groupResource, metricName, list)

(***************************************************************************)
(* Descriptors.  A metric descriptor is [type, metricKind, valueType].     *)
(***************************************************************************)
MetricInfo(metric) ==
    [groupResource |-> [group |-> <<>>, resource |-> "*"],
     metric |-> metric,
     namespaced |-> TRUE]

\* GetMetricsFromSDDescriptorsResp without the test for a separator
RECURSIVE descriptorsFromNoSeparatorTest(_, _, _, _)
descriptorsFromNoSeparatorTest(tr, descriptors, i, metrics) ==
    IF i > Len(descriptors) THEN metrics
    ELSE IF /\ descriptors[i].metricKind = "GAUGE"
            /\ descriptors[i].valueType \in {"INT64", "DOUBLE"}
    THEN descriptorsFromNoSeparatorTest(tr, descriptors, i + 1,
            Append(metrics,
                   MetricInfo(TrimPrefix(descriptors[i].type,
                                         tr.config.MetricsPrefix \o <<"/">>))))
    ELSE descriptorsFromNoSeparatorTest(tr, descriptors, i + 1, metrics)

RECURSIVE descriptorsFrom(_, _, _, _)
\* the loop of GetMetricsFromSDDescriptorsResp from descriptor i on
descriptorsFrom(tr, descriptors, i, metrics) ==
    IF i > Len(descriptors) THEN metrics
    ELSE IF /\ descriptors[i].metricKind = "GAUGE"
            /\ descriptors[i].valueType \in {"INT64", "DOUBLE"}
            /\ ~ContainsSlash(TrimPrefix(descriptors[i].type,
                                         tr.config.MetricsPrefix \o <<"/">>))
    THEN descriptorsFrom(tr, descriptors, i + 1,
            Append(metrics,
                   MetricInfo(TrimPrefix(descriptors[i].type,
                                         tr.config.MetricsPrefix \o <<"/">>))))
    ELSE descriptorsFrom(tr, descriptors, i + 1, metrics)

GetMetricsFromSDDescriptorsResp(tr, response) ==
    descriptorsFrom(tr, response, 1, <<>>)

(***************************************************************************)
(* Arguments of the request builders.  An object is the ObjectMeta of a    *)
(* pod or a node: name, namespace, UID.                                    *)
(***************************************************************************)
Obj(name, namespace, uid) ==
    [name |-> name, namespace |-> namespace, uid |-> uid]

\* names and UIDs with plain characters, with characters %q escapes, and
\* with the separator of one_of
ReqObjectSeq ==
    <<Obj(<<"a">>, <<"n">>, <<"u">>),
      Obj(<<"b">>, <<"n">>, <<"v">>),
      Obj(<<"a", "\"">>, <<"n">>, <<"\\">>),
      Obj(<<"\\", ",">>, <<"n">>, <<"u", ",">>)>>

ReqObjects == {ReqObjectSeq[i] : i \in 1..Len(ReqObjectSeq)}

SeqsUpTo(S, n) == UNION {[1..k -> S] : k \in 0..n}

\* a list of n objects
LongList(n) ==
    [i \in 1..n |-> ReqObjectSeq[((i - 1) % Len(ReqObjectSeq)) + 1]]

ReqLists ==
    SeqsUpTo(ReqObjects, MaxItems)
    \cup {LongList(n) : n \in (oneOfMax - 1)..(oneOfMax + 1)}

\* the namespace of a pod query; the second one is also the name of a pod
ReqNamespaces == {<<"n">>, <<"a">>}

ReqCalls ==
    [op : {"GetSDReqForPods"}, list : ReqLists, metricName : {<<"m">>},
     namespace : ReqNamespaces]
    \cup [op : {"GetSDReqForNodes"}, list : ReqLists, metricName : {<<"m">>}]
    \cup [op : {"ListMetricDescriptors"}]

NoResult == [kind |-> "none"]

InitReq ==
    /\ t \in Translators
    /\ call \in ReqCalls
    /\ result = NoResult
    /\ pc = "start"

DoGetSDReqForPods ==
    /\ pc = "start"
    /\ call.op = "GetSDReqForPods"
    /\ result' = GetSDReqForPods(t, call.list, call.metricName, call.namespace)
    /\ pc' = "done"
    /\ UNCHANGED <<t, call>>

DoGetSDReqForNodes ==
    /\ pc = "start"
    /\ call.op = "GetSDReqForNodes"
    /\ result' = GetSDReqForNodes(t, call.list, call.metricName)
    /\ pc' = "done"
    /\ UNCHANGED <<t, call>>

DoListMetricDescriptors ==
    /\ pc = "start"
    /\ call.op = "ListMetricDescriptors"
    /\ result' = [kind |-> "ok", req |-> ListMetricDescriptors(t)]
    /\ pc' = "done"
    /\ UNCHANGED <<t, call>>

NextReq ==
    \/ DoGetSDReqForPods
    \/ DoGetSDReqForNodes
    \/ DoListMetricDescriptors

SpecReq == InitReq /\ [][NextReq]_vars

(***************************************************************************)
(* Arguments of the response translators.                                  *)
(***************************************************************************)
Int64Value(v) == [kind |-> "int64", v |-> v]

DoubleValue(v) == [kind |-> "double", v |-> v]

\* a TypedValue with neither Int64Value nor DoubleValue set
NeitherValue == [kind |-> "none", v |-> 0]

PodSeries(o, points) ==
    [resourceType |-> "k8s_pod",
     labels |-> [namespace_name |-> o.namespace, pod_name |-> o.name],
     points |-> points]

NodeSeries(o, points) ==
    [resourceType |-> "k8s_node",
     labels |-> [node_name |-> o.name],
     points |-> points]

ContainerSeries(o, points) ==
    [resourceType |-> "gke_container",
     labels |-> [namespace_id |-> o.namespace, pod_id |-> o.uid],
     points |-> points]

Pod1 == Obj(<<"a">>, <<"n">>, <<"u">>)

Pod2 == Obj(<<"b">>, <<"n">>, <<"v">>)

Node1 == Obj(<<"a">>, <<>>, <<"w">>)

\* the points a series can come with: 1.0005 and 1.0004 are the doubles
PointLists ==
    {<<Int64Value(3)>>, <<Int64Value(4)>>, <<Int64Value(5)>>,
     <<DoubleValue(10005)>>, <<DoubleValue(10004)>>,
     <<NeitherValue>>, <<>>}

\* what the backend may answer a translator of the current resource model
CurrentSeries ==
    {PodSeries(Pod1, ps) : ps \in PointLists}
    \cup {PodSeries(Pod2, <<Int64Value(4)>>),
          PodSeries(Pod2, <<Int64Value(3), Int64Value(4)>>),
          NodeSeries(Node1, <<Int64Value(3)>>),
          ContainerSeries(Pod1, <<Int64Value(3)>>),
          ContainerSeries(Pod1, <<NeitherValue>>)}

\* what the backend may answer a translator of the legacy resource model
LegacySeries ==
    {ContainerSeries(Pod1, ps) : ps \in PointLists}
    \cup {ContainerSeries(Pod2, <<Int64Value(4)>>),
          ContainerSeries(Pod2, <<Int64Value(3), Int64Value(4)>>),
          PodSeries(Pod1, <<Int64Value(3)>>)}

Responses(tr) ==
    SeqsUpTo(IF tr.useNewResourceModel THEN CurrentSeries ELSE LegacySeries,
             MaxSeries)

GroupResource(resource) == [group |-> <<>>, resource |-> resource]

\* the REST mapper knows pods and nodes, not "foos"
GroupResources == {GroupResource(podResource), GroupResource("foos")}

RespLists == {<<Pod2, Pod1>>, <<Pod1, Node1, Pod1>>}

RespCalls(tr) ==
    [op : {"GetRespForSingleObject"}, response : Responses(tr),
     groupResource : GroupResources, metricName : {<<"m">>},
     namespace : {Pod1.namespace}, name : {Pod1.name}]
    \cup [op : {"GetRespForMultipleObjects"}, response : Responses(tr),
          list : RespLists, groupResource : GroupResources,
          metricName : {<<"m">>}]

InitResp ==
    /\ t \in Translators
    /\ call \in RespCalls(t)
    /\ result = NoResult
    /\ pc = "start"

DoGetRespForSingleObject ==
    /\ pc = "start"
    /\ call.op = "GetRespForSingleObject"
    /\ result' = GetRespForSingleObject(t, call.response, call.groupResource,
                    call.metricName, call.namespace, call.name)
    /\ pc' = "done"
    /\ UNCHANGED <<t, call>>

DoGetRespForMultipleObjects ==
    /\ pc = "start"
    /\ call.op = "GetRespForMultipleObjects"
    /\ result' = GetRespForMultipleObjects(t, call.response, call.list,
                    call.groupResource, call.metricName)
    /\ pc' = "done"
    /\ UNCHANGED <<t, call>>

NextResp ==
    \/ DoGetRespForSingleObject
    \/ DoGetRespForMultipleObjects

SpecResp == InitResp /\ [][NextResp]_vars

(***************************************************************************)
(* Arguments of the descriptor translator.                                 *)
(***************************************************************************)
\* p/a, p/a/b, a, p/q/a, q/a
DescriptorTypes ==
    {<<"p", "/", "a">>, <<"p", "/", "a", "/", "b">>, <<"a">>,
     <<"p", "/", "q", "/", "a">>, <<"q", "/", "a">>}

Descriptors ==
    [type : DescriptorTypes, metricKind : {"GAUGE", "CUMULATIVE"},
     valueType : {"INT64", "DOUBLE", "STRING"}]

DescCalls ==
    [op : {"GetMetricsFromSDDescriptorsResp"},
     response : SeqsUpTo(Descriptors, MaxDescriptors)]

InitDesc ==
    /\ t \in TranslatorsOf({GceConfig, NestedPrefixConfig})
    /\ call \in DescCalls
    /\ result = NoResult
    /\ pc = "start"

DoGetMetricsFromSDDescriptorsResp ==
    /\ pc = "start"
    /\ call.op = "GetMetricsFromSDDescriptorsResp"
    /\ result' = [kind |-> "ok",
                  metrics |-> GetMetricsFromSDDescriptorsResp(t, call.response)]
    /\ pc' = "done"
    /\ UNCHANGED <<t, call>>

NextDesc == DoGetMetricsFromSDDescriptorsResp

SpecDesc == InitDesc /\ [][NextDesc]_vars

(***************************************************************************)
(* Any call of any public method.                                          *)
(***************************************************************************)
Init == InitReq \/ InitResp \/ InitDesc

Next ==
    \/ DoGetSDReqForPods
    \/ DoGetSDReqForNodes
    \/ DoListMetricDescriptors
    \/ DoGetRespForSingleObject
    \/ DoGetRespForMultipleObjects
    \/ DoGetMetricsFromSDDescriptorsResp

Spec == Init /\ [][Next]_vars

(***************************************************************************)
(* Reading a filter back, as the backend's filter grammar reads it:        *)
(* label = "literal" and label = one_of("a","b",...).  Inside a literal a  *)
(* backslash escapes the next character.                                   *)
(***************************************************************************)
\* the number of backslashes immediately before position i
BackslashRun(f, i) ==
    Cardinality({j \in 1..(i - 1) : \A m \in j..(i - 1) : f[m] = "\\"})

\* position i holds a quote that opens or closes a literal
IsDelim(f, i) == f[i] = "\"" /\ BackslashRun(f, i) % 2 = 0

Delims(f) == {i \in 1..Len(f) : IsDelim(f, i)}

\* position i lies outside every literal and is no delimiter; D is Delims(f)
TopLevel(D, i) ==
    /\ i \notin D
    /\ Cardinality({d \in D : d < i}) % 2 = 0

\* the elements of a set of positions, ascending
Ascending(S) ==
    LET rank == [p \in S |-> Cardinality({q \in S : q < p})]
    IN  [k \in 1..Cardinality(S) |-> CHOOSE p \in S : rank[p] = k - 1]

RECURSIVE Unescape(_)
\* the text a literal's body stands for
Unescape(body) ==
    IF Len(body) = 0 THEN <<>>
    ELSE IF Head(body) = "\\" /\ Len(body) >= 2
         THEN <<body[2]>> \o Unescape(SubSeq(body, 3, Len(body)))
         ELSE <<Head(body)>> \o Unescape(Tail(body))

\* the last position of the operand that starts at position from
OperandEnd(f, D, from, oneOf) ==
    LET stop == IF oneOf
                THEN {i \in from..Len(f) : f[i] = ")" /\ TopLevel(D, i)}
                ELSE {i \in from..Len(f) : f[i] = " AND " /\ TopLevel(D, i)}
    IN  IF stop = {} THEN Len(f)
        ELSE (CHOOSE i \in stop : \A j \in stop : i <= j) - 1

\* The clause on `label`: whether there is exactly one, whether its operand
\* is a one_of, the texts of the operand's literals in order, and whether
\* the operand is nothing but literals separated by commas.
NameClause(f, label) ==
    LET D == Delims(f)
        labelAt == {i \in 1..Len(f) : f[i] = label /\ TopLevel(D, i)}
    IN  IF Cardinality(labelAt) /= 1
        THEN [found |-> FALSE, oneOf |-> FALSE, literals |-> <<>>,
              wellFormed |-> FALSE]
        ELSE LET at == CHOOSE i \in labelAt : TRUE
                 oneOf == at < Len(f) /\ f[at + 1] = "one_of("
                 from == IF oneOf THEN at + 2 ELSE at + 1
                 to == OperandEnd(f, D, from, oneOf)
                 ds == Ascending({d \in D : from <= d /\ d <= to})
                 commas == {i \in from..to : TopLevel(D, i)}
             IN  [found |-> TRUE,
                  oneOf |-> oneOf,
                  literals |->
                     [k \in 1..(Len(ds) \div 2) |->
                        Unescape(SubSeq(f, ds[2 * k - 1] + 1, ds[2 * k] - 1))],
                  wellFormed |->
                     /\ Len(ds) % 2 = 0
                     /\ Len(ds) >= 2
                     /\ ds[1] = from
                     /\ ds[Len(ds)] = to
                     /\ \A i \in commas : f[i] = ","
                     /\ Cardinality(commas) = (Len(ds) \div 2) - 1
                     /\ (oneOf => to < Len(f) /\ f[to + 1] = ")")]

\* the label a query's object clause is on
NameLabel ==
    IF call.op = "GetSDReqForNodes" THEN "resource.label.node_name = "
    ELSE IF t.useNewResourceModel THEN "resource.label.pod_name = "
    ELSE "resource.label.pod_id = "

\* what identifies the objects of the query in the filter
Idents ==
    [i \in 1..Len(call.list) |->
        IF t.useNewResourceModel THEN call.list[i].name
        ELSE call.list[i].uid]

IsReqCall == call.op \in {"GetSDReqForPods", "GetSDReqForNodes"}

(***************************************************************************)
(* Claims about the request builders (checked under SpecReq).              *)
(***************************************************************************)
\* C1: in both request builders and both resource models an empty object
\* list fails with BadRequest and a list longer than oneOfMax fails with
\* InternalError, both before any filter builder is invoked; no call ends
\* the process in a filter builder.
C1_LengthChecksBeforeFilters ==
    (pc = "done" /\ IsReqCall) =>
        /\ Len(call.list) = 0 =>
              result.kind = "BadRequest" /\ result.called = <<>>
        /\ Len(call.list) > oneOfMax =>
              result.kind = "InternalError" /\ result.called = <<>>
        /\ result.kind /= "Fatal"

C1_Witness ==
    /\ pc = "done"
    /\ call.op = "GetSDReqForNodes"
    /\ ~t.useNewResourceModel
    /\ Len(call.list) = oneOfMax + 1
    /\ result.kind = "InternalError"

\* C2 as stated: under the legacy model every node query, whatever the
\* list, fails with OperationNotSupported.
C2_Original ==
    (pc = "done" /\ call.op = "GetSDReqForNodes" /\ ~t.useNewResourceModel)
        => result.kind = "OperationNotSupported"

\* C2 amended: under the legacy model a node query never succeeds; it fails
\* with BadRequest for an empty list, with InternalError for a list longer
\* than oneOfMax, and with OperationNotSupported for every list of 1 to
\* oneOfMax nodes.
C2_LegacyNodesNeverBuilt ==
    (pc = "done" /\ call.op = "GetSDReqForNodes" /\ ~t.useNewResourceModel)
        => /\ result.called = <<>>
           /\ result.kind =
                IF Len(call.list) = 0 THEN "BadRequest"
                ELSE IF Len(call.list) > oneOfMax THEN "InternalError"
                ELSE "OperationNotSupported"

C2_Witness ==
    /\ pc = "done"
    /\ call.op = "GetSDReqForNodes"
    /\ ~t.useNewResourceModel
    /\ Len(call.list) = oneOfMax
    /\ result.kind = "OperationNotSupported"

\* C3: for a list of 1 to oneOfMax objects (pods in either model, nodes in
\* the current model) the request is built and its filter has exactly one
\* clause on the objects' label, whose operand is the quoted names (current
\* model) or UIDs (legacy model) of the list's elements, one literal per
\* element in list order, inside one_of(...) iff the list is longer than 1.
C3_FilterNamesEveryObject ==
    (/\ pc = "done"
     /\ IsReqCall
     /\ Len(call.list) >= 1
     /\ Len(call.list) <= oneOfMax
     /\ (call.op = "GetSDReqForNodes" => t.useNewResourceModel))
        => /\ result.kind = "ok"
           /\ LET c == NameClause(result.req.filter, NameLabel)
              IN  /\ c.found
                  /\ c.wellFormed
                  /\ c.literals = Idents
                  /\ c.oneOf <=> (Len(call.list) > 1)

C3_Witness ==
    /\ pc = "done"
    /\ call.op = "GetSDReqForPods"
    /\ Len(call.list) = oneOfMax
    /\ \E i \in 1..Len(call.list) : call.list[i].name = <<"a", "\"">>
    /\ result.kind = "ok"
    /\ NameClause(result.req.filter, NameLabel).oneOf

(***************************************************************************)
(* Claims about the response translators (checked under SpecResp).         *)
(***************************************************************************)
IsRespCall ==
    call.op \in {"GetRespForSingleObject", "GetRespForMultipleObjects"}

\* the aggregate map of the call's response
Aggregate ==
    getMetricValuesFromResponse(t, call.groupResource, call.response,
                                call.metricName)

\* the call returned no value
NoValueReturned ==
    IF call.op = "GetRespForSingleObject"
    THEN result.value = NoMetricValue
    ELSE result.values = <<>>

WrongCount(series) == Len(series.points) /= 1

Malformed(series) ==
    Len(series.points) = 1 /\ series.points[1].kind = "none"

Unrecognized(series) == series.resourceType \notin {"k8s_pod", "k8s_node"}

\* some series ahead of position i carries a malformed sample
MalformedBefore(i) == \E j \in 1..(i - 1) : Malformed(call.response[j])

\* C4 as stated: a series with a point count other than 1, anywhere in the
\* response and whatever the other series hold, makes the call fail with
\* InternalError and return no value.
C4_Original ==
    (/\ pc = "done"
     /\ IsRespCall
     /\ \E i \in 1..Len(call.response) : WrongCount(call.response[i]))
        => /\ result.kind = "InternalError"
           /\ NoValueReturned

\* C4 amended: a series with a point count other than 1 anywhere in the
\* response makes aggregation, and with it both response translators, fail
\* and return no map and no value.  The error is an InternalError, unless a
\* series ahead of that one carries a sample that is neither integer nor
\* floating: then it may be that series' BadRequest.
C4_WrongCountFails ==
    \A i \in 1..Len(call.response) :
        (pc = "done" /\ IsRespCall /\ WrongCount(call.response[i]))
            => /\ Aggregate.kind \in {"InternalError", "BadRequest"}
               /\ Aggregate.values = EmptyMap
               /\ result.kind = Aggregate.kind
               /\ NoValueReturned
               /\ ~MalformedBefore(i) => result.kind = "InternalError"

C4_Witness ==
    /\ pc = "done"
    /\ IsRespCall
    /\ Len(call.response) = 3
    /\ call.response[1].points = <<Int64Value(3)>>
    /\ call.response[2].points = <<Int64Value(4)>>
    /\ WrongCount(call.response[3])
    /\ result.kind = "InternalError"

\* the doubles and the integers of the series whose key is k
RECURSIVE SumOfKey(_, _, _)
SumOfKey(response, i, k) ==
    IF i > Len(response) THEN 0
    ELSE (IF metricKey(t, response[i]).name = k
          THEN response[i].points[1].v ELSE 0)
         + SumOfKey(response, i + 1, k)

SeriesOfKey(k) ==
    {i \in 1..Len(call.response) : metricKey(t, call.response[i]).name = k}

Distance(a, b) == IF a >= b THEN a - b ELSE b - a

\* C5 as stated: when every series of a key carries a floating sample, the
\* key's quantity is the sum of the samples to the nearest thousandth (in
\* ten-thousandths: no further than 5 from the sum).
C5_Original ==
    (pc = "done" /\ IsRespCall /\ Aggregate.kind = "ok") =>
        \A k \in DOMAIN Aggregate.values :
            (\A i \in SeriesOfKey(k) :
                call.response[i].points[1].kind = "double")
            => Distance(Aggregate.values[k] * 10,
                        SumOfKey(call.response, 1, k)) <= 5

\* every series has exactly one integer point and a type the model knows
WellFormedIntegers ==
    /\ Len(call.response) >= 1
    /\ \A i \in 1..Len(call.response) :
          /\ Len(call.response[i].points) = 1
          /\ call.response[i].points[1].kind = "int64"
          /\ t.useNewResourceModel => ~Unrecognized(call.response[i])

\* C6: for a response whose series all have exactly one integer point and a
\* recognised resource type, the aggregate map has exactly the keys of the
\* series, each with the exact sum of the points of the series of that key.
C6_IntegerSumsExact ==
    (pc = "done" /\ IsRespCall /\ WellFormedIntegers) =>
        /\ Aggregate.kind = "ok"
        /\ DOMAIN Aggregate.values =
              {metricKey(t, call.response[i]).name :
                  i \in 1..Len(call.response)}
        /\ \A k \in DOMAIN Aggregate.values :
              Aggregate.values[k] = 1000 * SumOfKey(call.response, 1, k)

C6_Witness ==
    /\ pc = "done"
    /\ IsRespCall
    /\ WellFormedIntegers
    /\ Len(call.response) = 3
    /\ \A i \in 1..3 :
          /\ metricKey(t, call.response[i]).name = resourceKey(t, Pod1)
          /\ call.response[i].points[1].v = i + 2
    /\ Aggregate.values[resourceKey(t, Pod1)] = 12000

\* the object's key is in the aggregate map
HasValue(object) == resourceKey(t, object) \in DOMAIN Aggregate.values

\* C7: when aggregation and kind resolution succeed, the batch translator
\* returns one value per element of the caller's list whose key is in the
\* aggregate map, in the list's order, with the element's name and
\* namespace and the quantity of its key; other elements yield nothing.
C7_BatchFollowsList ==
    (/\ pc = "done"
     /\ call.op = "GetRespForMultipleObjects"
     /\ Aggregate.kind = "ok"
     /\ ~KindFor(call.groupResource).err)
        => /\ result.kind = "ok"
           /\ Len(result.values) = Len(SelectSeq(call.list, HasValue))
           /\ \A i \in 1..Len(result.values) :
                LET object == SelectSeq(call.list, HasValue)[i]
                    got == result.values[i]
                IN  /\ got.describedObject.name = object.name
                    /\ got.describedObject.namespace = object.namespace
                    /\ got.value = Aggregate.values[resourceKey(t, object)]

C7_Witness ==
    /\ pc = "done"
    /\ call.op = "GetRespForMultipleObjects"
    /\ call.list = <<Pod1, Node1, Pod1>>
    /\ result.kind = "ok"
    /\ HasValue(Pod1)
    /\ ~HasValue(Node1)
    /\ Len(result.values) = 2

\* C8: the single-object translator succeeds only when the aggregate map
\* has exactly one key; when aggregation succeeds with more than one key it
\* fails with InternalError; on success the value is the quantity of that
\* key, described by the requested name and namespace.
C8_SingleObjectOneKey ==
    (pc = "done" /\ call.op = "GetRespForSingleObject") =>
        /\ (Aggregate.kind = "ok" /\ Cardinality(DOMAIN Aggregate.values) > 1)
              => result.kind = "InternalError"
        /\ result.kind = "ok" =>
              /\ Aggregate.kind = "ok"
              /\ Cardinality(DOMAIN Aggregate.values) = 1
              /\ \A k \in DOMAIN Aggregate.values :
                    result.value.value = Aggregate.values[k]
              /\ result.value.describedObject.name = call.name
              /\ result.value.describedObject.namespace = call.namespace

C8_Witness ==
    /\ pc = "done"
    /\ call.op = "GetRespForSingleObject"
    /\ Len(call.response) = 2
    /\ result.kind = "ok"
    /\ result.value.value = 7000

\* C10 as stated: under either resource model a series whose resource type
\* is neither the pod nor the node type makes aggregation fail with
\* InternalError.
C10_Original ==
    (/\ pc = "done"
     /\ IsRespCall
     /\ \E i \in 1..Len(call.response) : Unrecognized(call.response[i]))
        => Aggregate.kind = "InternalError"

\* C10 amended: under the current resource model a series whose resource
\* type is neither the pod nor the node type makes aggregation fail without
\* a map, so no key is derived for it; the error is an InternalError,
\* unless a series ahead of that one carries a sample that is neither
\* integer nor floating: then it may be that series' BadRequest.  Under the
\* legacy model the resource type is not looked at: the key of every series
\* is its pod_id label, and a response whose series all have one integer or
\* floating point aggregates.
C10_UnrecognizedTypeFails ==
    \A i \in 1..Len(call.response) :
        (pc = "done" /\ IsRespCall /\ Unrecognized(call.response[i]))
            => IF t.useNewResourceModel
               THEN /\ Aggregate.kind \in {"InternalError", "BadRequest"}
                    /\ Aggregate.values = EmptyMap
                    /\ result.kind = Aggregate.kind
                    /\ ~MalformedBefore(i) => Aggregate.kind = "InternalError"
               ELSE (\A j \in 1..Len(call.response) :
                        /\ ~WrongCount(call.response[j])
                        /\ ~Malformed(call.response[j]))
                    => /\ Aggregate.kind = "ok"
                       /\ Label(call.response[i].labels, "pod_id")
                             \in DOMAIN Aggregate.values

C10_Witness ==
    /\ pc = "done"
    /\ IsRespCall
    /\ t.useNewResourceModel
    /\ Len(call.response) = 2
    /\ ~Unrecognized(call.response[1])
    /\ call.response[1].points = <<Int64Value(3)>>
    /\ Unrecognized(call.response[2])
    /\ result.kind = "InternalError"

(***************************************************************************)
(* Claims about the descriptor translator (checked under SpecDesc).        *)
(***************************************************************************)
\* the type name without the configured prefix and its separator
Stripped(type) ==
    LET prefix == t.config.MetricsPrefix \o <<"/">>
    IN  IF /\ Len(type) >= Len(prefix)
           /\ \A i \in 1..Len(prefix) : type[i] = prefix[i]
        THEN [i \in 1..(Len(type) - Len(prefix)) |-> type[i + Len(prefix)]]
        ELSE type

Kept(descriptor) ==
    /\ descriptor.metricKind = "GAUGE"
    /\ descriptor.valueType = "INT64" \/ descriptor.valueType = "DOUBLE"
    /\ \A i \in 1..Len(Stripped(descriptor.type)) :
          Stripped(descriptor.type)[i] /= "/"

====
